---------------------------- MODULE Spec2Model ----------------------------
(***************************************************************************)
(* Catalog, Feature Store and Ingestion Pipeline of the image retrieval    *)
(* system: src/src/database.py, src/src/scanner.py, src/src/processor.py   *)
(* and the provider contract of src/src/model.py (FeatureExtractor.extract)*)
(* followed by the Vector Index and Search Engine of src/src/search.py and *)
(* the grouping of src/src/deduplication.py.                               *)
(*                                                                         *)
(* Conventions.  A path is a number 1..NumPaths (an opaque file name); the *)
(* file 0 is a directory entry whose extension is not an image extension.  *)
(* The images table is a sequence of rows; the id of a row is its position *)
(* (INTEGER PRIMARY KEY AUTOINCREMENT, and no statement ever deletes a     *)
(* row).  Python positions are 0-based, sequence positions here 1-based.   *)
(***************************************************************************)
EXTENDS Integers, Sequences, FiniteSets, TLC

\* ---- bounds of the model -------------------------------------------------
NumPaths == 3
\* longest list handed to one direct insert_images_batch / mark / save call
MaxCall == 2
\* config.BATCH_SIZE is 128 and scanner.BATCH_SIZE is 1000; both are tunables
\* and are scaled down so that one run needs several batches
BATCH_SIZE == 2
SCAN_BATCH_SIZE == 2
\* most rows of the index the duplicate detector works on, and most edges of
\* the duplicate relation handed to merge_duplicate_groups
MaxRows == 4
MaxEdges == 2
\* the width of the per-row search of find_duplicate_groups, which is 50 in
\* the program: scaled down so that an index can have more rows than it
SEARCH_WIDTH == 2

\* ---- status codes (database.py: "0=Pending, 1=Processed, 2=Failed") -------
PENDING == 0
PROCESSED == 1
FAILED == 2

Paths == 1..NumPaths
NonImageFile == 0
DirEntries == Paths \cup {NonImageFile}
Ids == 1..NumPaths

\* scanner.py: ext in VALID_EXTENSIONS
HasValidExtension(f) == f \in Paths

\* config.FEATURE_DIM is 768; scaled down like the batch sizes
FEATURE_DIM == 2

\* the unit-length vector along axis i in dimension d
Axis(i, d) == [j \in 1..d |-> IF j = i THEN 1 ELSE 0]

\* the provider's (unit-length) vector for the image at path p; the files at
\* paths 1 and 3 hold the same picture, and so have the same vector
Embed(p) == Axis(((p - 1) % 2) + 1, FEATURE_DIM)

\* the vectors a features row may hold: the provider's, and one of another
\* length, as written under a model of another output width
Vectors == {Embed(p) : p \in Paths} \cup {Axis(1, FEATURE_DIM + 1)}

\* the four little-endian bytes of the float32 values 0.0 and 1.0
Float32Bytes(x) == IF x = 1 THEN <<0, 0, 128, 63>> ELSE <<0, 0, 0, 0>>

\* ndarray.tobytes() of a float32 vector
RECURSIVE tobytes(_)
tobytes(vec) ==
    IF vec = <<>> THEN <<>> ELSE Float32Bytes(Head(vec)) \o tobytes(Tail(vec))

\* np.frombuffer(blob, dtype=np.float32): ValueError unless the length is a
\* multiple of the item size
RECURSIVE Float32Values(_)
Float32Values(blob) ==
    IF blob = <<>> THEN <<>>
    ELSE <<(IF SubSeq(blob, 1, 4) = Float32Bytes(1) THEN 1 ELSE 0)>>
             \o Float32Values(SubSeq(blob, 5, Len(blob)))

frombuffer(blob) ==
    IF Len(blob) % 4 # 0 THEN [raised |-> TRUE, vec |-> <<>>]
    ELSE [raised |-> FALSE, vec |-> Float32Values(blob)]

Blobs == {tobytes(v) : v \in Vectors}

Range(s) == {s[i] : i \in 1..Len(s)}
Min(a, b) == IF a < b THEN a ELSE b

\* all sequences over S of length at most n
RECURSIVE SeqsUpTo(_, _)
SeqsUpTo(S, n) ==
    IF n = 0 THEN {<<>>}
    ELSE LET shorter == SeqsUpTo(S, n - 1)
         IN shorter \cup {Append(s, x) : s \in {t \in shorter : Len(t) = n - 1}, x \in S}

\* the ascending sequence of a set of integers
RECURSIVE Ascending(_)
Ascending(S) ==
    IF S = {} THEN <<>>
    ELSE LET m == CHOOSE x \in S : \A y \in S : x <= y
         IN <<m>> \o Ascending(S \ {m})

VARIABLES
    images,         \* table images: row i is [path, status], id = i
    features,       \* table features: image_id -> vector
    pc,             \* position of the process command
    ids,            \* process_images: ids of the fetched batch
    valid_indices,  \* process_images: batch positions the provider embedded
    successful_ids, \* process_images: local list
    failed_ids,     \* process_images: local list
    features_data,  \* process_images: local list of <<id, vector>>
    k,              \* process_images: iterations done of the running for loop
    last_register,  \* the register / scan call, with the count it returned,
                    \* when it is the last database call made; else NoCall
    fetched,        \* history: ids some fetch of process_images returned
    extract_failed, \* history: ids the provider failed to embed
    index,          \* SearchEngine.index: None, or a flat inner-product index
    image_paths,    \* SearchEngine.image_paths
    index_file,     \* the file INDEX_PATH
    paths_file,     \* the file INDEX_PATH + ".paths.pkl"
    ret,            \* the engine call just made, with what it returned
    saved,          \* history: the blob last given to save_feature_batch
                    \* for each id, and whether a save replaced a blob
    groups,         \* DuplicateDetector: the edges handed to
                    \* merge_duplicate_groups and the groups it returned
    build,          \* build_index under way in another thread of the engine:
                    \* its position, its locals, and the pair it replaces
    dedup,          \* the deduplicate command last run, with what it read
                    \* and what each of its steps returned
    filter_file,    \* the file FILTER_LIST_PATH
    report_file     \* the file DEDUP_REPORT_PATH

vars == <<images, features, pc, ids, valid_indices, successful_ids, failed_ids,
          features_data, k, last_register, fetched, extract_failed,
          index, image_paths, index_file, paths_file, ret, saved, groups,
          build, dedup, filter_file, report_file>>

duplicates == <<dedup, filter_file, report_file>>
engine == <<index, image_paths, index_file, paths_file, groups, build, duplicates>>

locals == <<ids, valid_indices, successful_ids, failed_ids, features_data, k>>

\* ---- database.py ----------------------------------------------------------

\* variant: INSERT OR REPLACE, which writes the row of a known path anew, its
\* status back at the default
InsertOrReplacePath(tbl, p) ==
    IF \E i \in 1..Len(tbl) : tbl[i].path = p
    THEN [tbl |-> [i \in 1..Len(tbl) |->
                      IF tbl[i].path = p THEN [path |-> p, status |-> PENDING] ELSE tbl[i]],
          rowcount |-> 1]
    ELSE [tbl |-> Append(tbl, [path |-> p, status |-> PENDING]), rowcount |-> 1]

\* INSERT OR IGNORE INTO images (path) VALUES (?): path is UNIQUE, status
\* DEFAULT 0; yields the table and the statement's rowcount
InsertOrIgnore(tbl, p) ==
    IF \E i \in 1..Len(tbl) : tbl[i].path = p
    THEN [tbl |-> tbl, rowcount |-> 0]
    ELSE [tbl |-> Append(tbl, [path |-> p, status |-> PENDING]), rowcount |-> 1]

\* variant: the number of paths handed in is returned instead of the rowcount
RECURSIVE CountAllInsert(_, _)
CountAllInsert(tbl, paths) ==
    IF paths = <<>> THEN [tbl |-> tbl, rowcount |-> 0]
    ELSE LET one == InsertOrIgnore(tbl, Head(paths))
             rest == CountAllInsert(one.tbl, Tail(paths))
         IN [tbl |-> rest.tbl, rowcount |-> 1 + rest.rowcount]

\* cursor.executemany of the insert: rowcount is summed over the list
RECURSIVE ExecuteManyInsert(_, _)
ExecuteManyInsert(tbl, paths) ==
    IF paths = <<>> THEN [tbl |-> tbl, rowcount |-> 0]
    ELSE LET one == InsertOrIgnore(tbl, Head(paths))
             rest == ExecuteManyInsert(one.tbl, Tail(paths))
         IN [tbl |-> rest.tbl, rowcount |-> one.rowcount + rest.rowcount]

insert_images_batch(tbl, paths) ==
    IF paths = <<>> THEN [tbl |-> tbl, rowcount |-> 0]
    ELSE ExecuteManyInsert(tbl, paths)

\* variant: WHERE status != 1, which takes the Failed records again
get_not_processed(tbl, limit) ==
    LET pending == SelectSeq([i \in 1..Len(tbl) |-> i], LAMBDA i : tbl[i].status # PROCESSED)
    IN SubSeq(pending, 1, Min(limit, Len(pending)))

\* variant: ORDER BY id DESC
get_pending_desc(tbl, limit) ==
    LET pending == SelectSeq([i \in 1..Len(tbl) |-> Len(tbl) + 1 - i],
                             LAMBDA i : tbl[i].status = PENDING)
    IN SubSeq(pending, 1, Min(limit, Len(pending)))

\* SELECT id, path FROM images WHERE status = 0 ORDER BY id ASC LIMIT ?
get_pending_images(tbl, limit) ==
    LET pending == SelectSeq([i \in 1..Len(tbl) |-> i], LAMBDA i : tbl[i].status = PENDING)
    IN SubSeq(pending, 1, Min(limit, Len(pending)))

\* UPDATE images SET status = ? WHERE id = ?
UpdateStatus(tbl, id, st) ==
    [i \in 1..Len(tbl) |-> IF i = id THEN [tbl[i] EXCEPT !.status = st] ELSE tbl[i]]

\* variant: cursor.execute on the first id instead of executemany
mark_first_only(tbl, idlist) ==
    IF idlist = <<>> THEN tbl ELSE UpdateStatus(tbl, Head(idlist), PROCESSED)

RECURSIVE mark_as_processed(_, _)
mark_as_processed(tbl, idlist) ==
    IF idlist = <<>> THEN tbl
    ELSE mark_as_processed(UpdateStatus(tbl, Head(idlist), PROCESSED), Tail(idlist))

mark_as_failed(tbl, id) == UpdateStatus(tbl, id, FAILED)

\* variant: INSERT OR IGNORE, which keeps the vector stored first
InsertOrIgnoreFeature(ft, id, v) ==
    [i \in DOMAIN ft \cup {id} |-> IF i \in DOMAIN ft THEN ft[i] ELSE v]

\* INSERT OR REPLACE INTO features (image_id, vector) VALUES (?, ?)
InsertOrReplace(ft, id, v) ==
    [i \in DOMAIN ft \cup {id} |-> IF i = id THEN v ELSE ft[i]]

\* variant: the connection is closed without conn.commit()
save_without_commit(ft, data) == ft

RECURSIVE save_feature_batch(_, _)
save_feature_batch(ft, data) ==
    IF data = <<>> THEN ft
    ELSE save_feature_batch(InsertOrReplace(ft, Head(data)[1], Head(data)[2]), Tail(data))

\* SELECT i.path, f.vector FROM features f JOIN images i ON f.image_id = i.id
\* ORDER BY i.id ASC; yields the two lists paths and vectors
get_all_features(tbl, ft) ==
    LET joined == SelectSeq([i \in 1..Len(tbl) |-> i], LAMBDA i : i \in DOMAIN ft)
    IN [paths |-> [n \in 1..Len(joined) |-> tbl[joined[n]].path],
        vectors |-> [n \in 1..Len(joined) |-> ft[joined[n]]]]

\* variant: COUNT(DISTINCT status)
get_stats_distinct(tbl) ==
    [s \in {tbl[i].status : i \in 1..Len(tbl)} |-> 1]

\* SELECT status, COUNT(*) FROM images GROUP BY status; dict(rows)
get_stats(tbl) ==
    [s \in {tbl[i].status : i \in 1..Len(tbl)} |->
        Cardinality({i \in 1..Len(tbl) : tbl[i].status = s})]


\* ---- scanner.py -----------------------------------------------------------

\* the os.walk loop of scan_directory over the directory's entries, then the
\* "insert remaining images" step; yields the table and new_count
RECURSIVE ScanLoop(_, _, _, _)
ScanLoop(tbl, files, batch, cnt) ==
    IF files = <<>>
    THEN IF batch # <<>>
         THEN LET r == insert_images_batch(tbl, batch)
              IN [tbl |-> r.tbl, new_count |-> cnt + r.rowcount]
         ELSE [tbl |-> tbl, new_count |-> cnt]
    ELSE IF ~HasValidExtension(Head(files))
         THEN ScanLoop(tbl, Tail(files), batch, cnt)
         ELSE LET b == Append(batch, Head(files))
              IN IF Len(b) >= SCAN_BATCH_SIZE
                 THEN LET r == insert_images_batch(tbl, b)
                      IN ScanLoop(r.tbl, Tail(files), <<>>, cnt + r.rowcount)
                 ELSE ScanLoop(tbl, Tail(files), b, cnt)

scan_directory(tbl, files) == ScanLoop(tbl, files, <<>>, 0)

\* ---- model.py: FeatureExtractor.extract -----------------------------------

\* extract(paths) when exactly the batch positions in valid could be read:
\* one feature row per readable position, in position order, and the list of
\* those positions; features is None when no position could be read
extract(paths, valid) ==
    LET vi == Ascending(valid)
    IN IF vi = <<>>
       THEN [features |-> <<>>, is_none |-> TRUE, valid_indices |-> <<>>]
       ELSE [features |-> [j \in 1..Len(vi) |-> Embed(paths[vi[j]])],
             is_none |-> FALSE, valid_indices |-> vi]

\* ---- processor.py ---------------------------------------------------------

\* variant: the j-th feature row goes to the j-th id of the batch
RECURSIVE MapBackByRank(_, _, _, _, _)
MapBackByRank(batch_ids, valid_set, feats, i, acc) ==
    IF i > Len(batch_ids) THEN acc
    ELSE IF i \in valid_set
         THEN MapBackByRank(batch_ids, valid_set, feats, i + 1,
                      [successful_ids |-> Append(acc.successful_ids, batch_ids[i]),
                       failed_ids |-> acc.failed_ids,
                       features_data |-> Append(acc.features_data,
                                                <<batch_ids[acc.feature_idx],
                                                  tobytes(feats[acc.feature_idx])>>),
                       feature_idx |-> acc.feature_idx + 1])
         ELSE MapBackByRank(batch_ids, valid_set, feats, i + 1,
                      [acc EXCEPT !.failed_ids = Append(acc.failed_ids, batch_ids[i])])

\* the loop "for i in range(len(ids))" of process_images, from position i on
RECURSIVE MapBack(_, _, _, _, _)
MapBack(batch_ids, valid_set, feats, i, acc) ==
    IF i > Len(batch_ids) THEN acc
    ELSE IF i \in valid_set
         THEN MapBack(batch_ids, valid_set, feats, i + 1,
                      [successful_ids |-> Append(acc.successful_ids, batch_ids[i]),
                       failed_ids |-> acc.failed_ids,
                       features_data |-> Append(acc.features_data,
                                                <<batch_ids[i],
                                                  tobytes(feats[acc.feature_idx])>>),
                       feature_idx |-> acc.feature_idx + 1])
         ELSE MapBack(batch_ids, valid_set, feats, i + 1,
                      [acc EXCEPT !.failed_ids = Append(acc.failed_ids, batch_ids[i])])

EmptyLists ==
    [successful_ids |-> <<>>, failed_ids |-> <<>>, features_data |-> <<>>, feature_idx |-> 1]

NotRunning == {"idle", "returned", "crashed"}

NoCall == [paths |-> {}, new_count |-> -1]

RowIdsOf(tbl) == 1..Len(tbl)

\* ---- search.py: the engine's state and what its calls return --------------

\* self.index = None
None == [d |-> -1, xb |-> <<>>]
\* a file that does not exist
NoFile == [exists |-> FALSE, data |-> <<>>]
File(data) == [exists |-> TRUE, data |-> data]

\* a call op of the engine and its outcome: ok is the boolean a build, save or
\* load returned, raised says that an exception left the call, results is the
\* list a search returned, batch the dict search_batch returned, and qv,
\* qpaths, topk are the arguments of a search; of a search_batch, embedded
\* are the query paths the provider embedded and failed those whose search
\* raised
Ret(op, ok, raised, qv, qpaths, topk, results, batch) ==
    [op |-> op, ok |-> ok, raised |-> raised, qv |-> qv, qpaths |-> qpaths,
     topk |-> topk, results |-> results, batch |-> batch,
     embedded |-> {}, failed |-> {}]
Returned(op, ok) == Ret(op, ok, FALSE, <<>>, <<>>, 0, <<>>, <<>>)
Raised(op) == Ret(op, FALSE, TRUE, <<>>, <<>>, 0, <<>>, <<>>)
NoRet == Returned("none", FALSE)

\* no call of merge_duplicate_groups is under way
NoGroups == [n |-> 0, edges |-> <<>>, merged |-> <<>>, done |-> FALSE]

\* no build_index is under way
NoBuild == [pc |-> "idle", vectors |-> <<>>, paths |-> <<>>,
            old_index |-> None, old_paths |-> <<>>]

\* no deduplicate command has been run
NoDedup == [stage |-> "none", paths |-> <<>>, vectors |-> <<>>, threshold |-> 0,
            sizes |-> <<>>, hits |-> <<>>, edges |-> <<>>, merged |-> <<>>,
            retained |-> {}, filtered |-> {}]

\* a step that is no call of the engine
EngineIdle ==
    /\ ret' = NoRet
    /\ UNCHANGED engine

\* ... and no call of save_feature_batch either
StoreIdle == EngineIdle /\ UNCHANGED saved

\* ---- history of the calls of save_feature_batch ---------------------------
NeverSaved == [latest |-> <<>>, replaced |-> FALSE]

\* the vector of the last entry of data that names id
LastEntry(data, id) ==
    LET n == CHOOSE n \in 1..Len(data) :
                 data[n][1] = id /\ \A m \in (n + 1)..Len(data) : data[m][1] # id
    IN data[n][2]

\* the history after a call save_feature_batch(data)
Record(sv, data) ==
    LET given == {data[n][1] : n \in 1..Len(data)}
    IN [latest |-> [i \in DOMAIN sv.latest \cup given |->
                       IF i \in given THEN LastEntry(data, i) ELSE sv.latest[i]],
        replaced |-> \/ sv.replaced
                     \/ \E n \in 1..Len(data) :
                           /\ data[n][1] \in DOMAIN sv.latest
                           /\ data[n][2] # sv.latest[data[n][1]]]

ClearLocals ==
    /\ ids' = <<>>
    /\ valid_indices' = <<>>
    /\ successful_ids' = <<>>
    /\ failed_ids' = <<>>
    /\ features_data' = <<>>
    /\ k' = 0

\* ---- initial state: init_db on an empty data directory --------------------
InitRest ==
    /\ images = <<>>
    /\ features = <<>>
    /\ pc = "idle"
    /\ ids = <<>>
    /\ valid_indices = <<>>
    /\ successful_ids = <<>>
    /\ failed_ids = <<>>
    /\ features_data = <<>>
    /\ k = 0
    /\ last_register = NoCall
    /\ fetched = {}
    /\ extract_failed = {}
    /\ index = None
    /\ image_paths = <<>>
    /\ index_file = NoFile
    /\ paths_file = NoFile
    /\ ret = NoRet
    /\ saved = NeverSaved
    /\ build = NoBuild
    /\ filter_file = NoFile
    /\ report_file = NoFile

Init ==
    /\ InitRest
    /\ groups = NoGroups
    /\ dedup = NoDedup

\* ---- the commands scan and process ----------------------------------------

\* main.py "scan": scan_directory over a directory holding the entries files;
\* the command drops the count scan_directory returns
Scan(files) ==
    /\ images' = scan_directory(images, files).tbl
    /\ last_register' = NoCall
    /\ StoreIdle
    /\ UNCHANGED <<features, pc, locals, fetched, extract_failed>>

\* main.py "process": process_images() is entered
ProcStart ==
    /\ pc \in NotRunning
    /\ pc' = "fetch"
    /\ ClearLocals
    /\ StoreIdle
    /\ UNCHANGED <<images, features, last_register, fetched, extract_failed>>

\* rows = get_pending_images(BATCH_SIZE); if not rows: break
Fetch ==
    /\ pc = "fetch"
    /\ LET rows == get_pending_images(images, BATCH_SIZE)
       IN IF rows = <<>>
          THEN /\ pc' = "returned"
               /\ ClearLocals
               /\ fetched' = fetched
          ELSE /\ pc' = "extract"
               /\ fetched' = fetched \cup Range(rows)
               /\ ids' = rows
               /\ valid_indices' = <<>>
               /\ successful_ids' = <<>>
               /\ failed_ids' = <<>>
               /\ features_data' = <<>>
               /\ k' = 0
    /\ last_register' = NoCall
    /\ StoreIdle
    /\ UNCHANGED <<images, features, extract_failed>>

\* features, valid_indices = extractor.extract(paths), then the map-back loop
Extract(valid) ==
    /\ pc = "extract"
    /\ LET paths == [i \in 1..Len(ids) |-> images[ids[i]].path]
           got == extract(paths, valid)
           lists == MapBack(ids, Range(got.valid_indices), got.features, 1, EmptyLists)
       IN /\ valid_indices' = got.valid_indices
          /\ IF got.is_none
             THEN /\ pc' = "fail_all"
                  /\ UNCHANGED <<successful_ids, failed_ids, features_data>>
             ELSE /\ pc' = "save"
                  /\ successful_ids' = lists.successful_ids
                  /\ failed_ids' = lists.failed_ids
                  /\ features_data' = lists.features_data
    /\ extract_failed' = extract_failed \cup {ids[i] : i \in (1..Len(ids)) \ valid}
    /\ StoreIdle
    /\ UNCHANGED <<images, features, ids, k, last_register, fetched>>

\* variant: break instead of continue after the loop
FailAllThenBreak ==
    /\ pc = "fail_all"
    /\ images' = mark_as_failed(images, ids[k + 1])
    /\ k' = k + 1
    /\ pc' = IF k + 1 = Len(ids) THEN "returned" ELSE "fail_all"
    /\ last_register' = NoCall
    /\ StoreIdle
    /\ UNCHANGED <<features, ids, valid_indices, successful_ids, failed_ids,
                   features_data, fetched, extract_failed>>

\* "if features is None: for i in ids: mark_as_failed(i); continue"
FailAllStep ==
    /\ pc = "fail_all"
    /\ images' = mark_as_failed(images, ids[k + 1])
    /\ k' = k + 1
    /\ pc' = IF k + 1 = Len(ids) THEN "fetch" ELSE "fail_all"
    /\ last_register' = NoCall
    /\ StoreIdle
    /\ UNCHANGED <<features, ids, valid_indices, successful_ids, failed_ids,
                   features_data, fetched, extract_failed>>

\* "if features_data: save_feature_batch(features_data)"
SaveStep ==
    /\ pc = "save"
    /\ features' = IF features_data # <<>>
                   THEN save_feature_batch(features, features_data)
                   ELSE features
    /\ pc' = "mark_processed"
    /\ last_register' = IF features_data # <<>> THEN NoCall ELSE last_register
    /\ saved' = IF features_data # <<>> THEN Record(saved, features_data) ELSE saved
    /\ EngineIdle
    /\ UNCHANGED <<images, locals, fetched, extract_failed>>

\* "if successful_ids: mark_as_processed(successful_ids)"
MarkProcessedStep ==
    /\ pc = "mark_processed"
    /\ images' = IF successful_ids # <<>>
                 THEN mark_as_processed(images, successful_ids)
                 ELSE images
    /\ pc' = IF failed_ids # <<>> THEN "mark_failed" ELSE "fetch"
    /\ last_register' = IF successful_ids # <<>> THEN NoCall ELSE last_register
    /\ StoreIdle
    /\ UNCHANGED <<features, locals, fetched, extract_failed>>

\* "for i in failed_ids: mark_as_failed(i)"
MarkFailedStep ==
    /\ pc = "mark_failed"
    /\ images' = mark_as_failed(images, failed_ids[k + 1])
    /\ k' = k + 1
    /\ pc' = IF k + 1 = Len(failed_ids) THEN "fetch" ELSE "mark_failed"
    /\ last_register' = NoCall
    /\ StoreIdle
    /\ UNCHANGED <<features, ids, valid_indices, successful_ids, failed_ids,
                   features_data, fetched, extract_failed>>

\* the process running process_images is killed between two database calls
Crash ==
    /\ pc \notin NotRunning
    /\ pc' = "crashed"
    /\ ClearLocals
    /\ StoreIdle
    /\ UNCHANGED <<images, features, last_register, fetched, extract_failed>>

\* ---- direct calls of the database functions --------------------------------

CallScanDirectory(files) ==
    /\ LET r == scan_directory(images, files)
       IN /\ images' = r.tbl
          /\ last_register' = [paths |-> {f \in Range(files) : HasValidExtension(f)},
                               new_count |-> r.new_count]
    /\ StoreIdle
    /\ UNCHANGED <<features, pc, locals, fetched, extract_failed>>

Register(paths) ==
    /\ LET r == insert_images_batch(images, paths)
       IN /\ images' = r.tbl
          /\ last_register' = [paths |-> Range(paths), new_count |-> r.rowcount]
    /\ StoreIdle
    /\ UNCHANGED <<features, pc, locals, fetched, extract_failed>>

CallMarkProcessed(idlist) ==
    /\ images' = mark_as_processed(images, idlist)
    /\ last_register' = NoCall
    /\ StoreIdle
    /\ UNCHANGED <<features, pc, locals, fetched, extract_failed>>

CallMarkFailed(id) ==
    /\ images' = mark_as_failed(images, id)
    /\ last_register' = NoCall
    /\ StoreIdle
    /\ UNCHANGED <<features, pc, locals, fetched, extract_failed>>

CallSaveBatch(data) ==
    /\ features' = IF data # <<>> THEN save_feature_batch(features, data) ELSE features
    /\ last_register' = IF data # <<>> THEN NoCall ELSE last_register
    /\ saved' = IF data # <<>> THEN Record(saved, data) ELSE saved
    /\ EngineIdle
    /\ UNCHANGED <<images, pc, locals, fetched, extract_failed>>

\* ---- inputs ----------------------------------------------------------------
RegisterInputs == SeqsUpTo(Paths, MaxCall)
\* a directory is a set of entries, walked in name order; successive scans of
\* growing directories still register the paths in every order
ScanInputs == {Ascending(d) : d \in SUBSET DirEntries}
IdLists == {Ascending(S) : S \in {T \in SUBSET Ids : 1 <= Cardinality(T) /\ Cardinality(T) <= MaxCall}}
\* features_data: no entry, one entry, or two entries, which may name one id
SaveInputs ==
    {<<>>} \cup {<<e>> : e \in Ids \X Blobs} \cup {<<e, f>> : e, f \in Ids \X Blobs}

ScanAny == \E files \in ScanInputs : Scan(files)
ExtractAny == \E valid \in SUBSET (1..Len(ids)) : Extract(valid)
CallScanDirectoryAny == \E files \in ScanInputs : CallScanDirectory(files)
RegisterAny == \E paths \in RegisterInputs : Register(paths)
CallMarkProcessedAny == \E idlist \in IdLists : CallMarkProcessed(idlist)
CallMarkFailedAny == \E id \in Ids : CallMarkFailed(id)
CallSaveBatchAny == \E data \in SaveInputs : CallSaveBatch(data)

ProcessStep ==
    \/ Fetch
    \/ ExtractAny
    \/ FailAllStep
    \/ SaveStep
    \/ MarkProcessedStep
    \/ MarkFailedStep

\* the commands, run to completion
NextPipeline == ScanAny \/ ProcStart \/ ProcessStep

\* the commands, where a running process may be killed
NextCrash == NextPipeline \/ Crash

\* the functions that write the images table, called in any order by any
\* caller.  process_images writes that table only through mark_as_processed
\* and mark_as_failed, with lists no longer than BATCH_SIZE, so the images
\* table of any run of the commands, crashed or not, is one reached here.
Next ==
    \/ CallScanDirectoryAny
    \/ RegisterAny
    \/ CallMarkProcessedAny
    \/ CallMarkFailedAny

\* the same, with the features table written too
NextStore == Next \/ CallSaveBatchAny

Spec == Init /\ [][Next]_vars
SpecPipeline == Init /\ [][NextPipeline]_vars
SpecCrash == Init /\ [][NextCrash]_vars

\* the pipeline with crashes, its scans being those of a directory of images
\* the table does not hold yet (INSERT OR IGNORE skips every other entry)
ScanNew ==
    LET unregistered == Paths \ {images[i].path : i \in 1..Len(images)}
    IN \E d \in (SUBSET unregistered) \ {{}} : Scan(Ascending(d))
NextWriteOrder == ScanNew \/ ProcStart \/ ProcessStep \/ Crash
SpecWriteOrder == Init /\ [][NextWriteOrder]_vars
SpecStore == Init /\ [][NextStore]_vars

\* the Feature Store: any caller saves vectors under any ids, between scans
NextFeatures == ScanAny \/ CallSaveBatchAny
SpecFeatures == Init /\ [][NextFeatures]_vars
\* process_images is one sequential loop: once entered it keeps taking steps
SpecLive == Init /\ [][NextPipeline]_vars /\ WF_vars(ProcessStep)


\* ---- faiss.IndexFlatIP ------------------------------------------------------
\* Rows are numbered from 1 here, from 0 in faiss; the label -1 that faiss
\* gives a result slot it could not fill is the label 0 here.

IndexFlatIP(d) == [d |-> d, xb |-> <<>>]
add(ix, vectors) == [ix EXCEPT !.xb = @ \o vectors]
ntotal(ix) == Len(ix.xb)

RECURSIVE InnerProduct(_, _)
InnerProduct(a, b) ==
    IF a = <<>> THEN 0 ELSE Head(a) * Head(b) + InnerProduct(Tail(a), Tail(b))

\* variant: n distinct rows in any order, as a search that does not rank
UnrankedRows(ix, q, n) ==
    {r \in [1..n -> 1..ntotal(ix)] : \A a, b \in 1..n : a < b => r[a] # r[b]}

\* the rankings an exact top-n search for q may give: n distinct rows, scores
\* descending, no row left out that scores higher than one taken.  Rows of
\* equal score come in an order the library does not document.
Rankings(ix, q, n) ==
    {r \in [1..n -> 1..ntotal(ix)] :
        /\ \A a, b \in 1..n : a < b =>
              /\ r[a] # r[b]
              /\ InnerProduct(ix.xb[r[a]], q) >= InnerProduct(ix.xb[r[b]], q)
        /\ \A row \in (1..ntotal(ix)) \ Range(r) : \A a \in 1..n :
              InnerProduct(ix.xb[row], q) <= InnerProduct(ix.xb[r[a]], q)}

\* index.search(q, topk) for one query: the outcomes the call may have, each
\* the pairs <<label, distance>> of the result slots.  The Python wrapper
\* asserts that q has the dimension of the index; a search for 0 results
\* returns nothing or fails an assertion, depending on the faiss release; slots
\* beyond the number of vectors are filled with label -1.
IndexSearch(ix, q, topk) ==
    IF Len(q) # ix.d THEN {[raised |-> TRUE, slots |-> <<>>]}
    ELSE IF topk <= 0
         THEN {[raised |-> TRUE, slots |-> <<>>], [raised |-> FALSE, slots |-> <<>>]}
         ELSE LET n == Min(topk, ntotal(ix))
              IN {[raised |-> FALSE,
                   slots |-> [a \in 1..topk |->
                                 IF a <= n THEN <<r[a], InnerProduct(ix.xb[r[a]], q)>>
                                 ELSE <<0, -1 - FEATURE_DIM>>]] :
                     r \in Rankings(ix, q, n)}

\* ---- search.py: SearchEngine ------------------------------------------------

\* variant: the number of results asked for is passed on as it is
KeepK(topk, n) == topk

\* k = min(k, self.index.ntotal)
CapK(topk, n) == Min(topk, n)

\* "for dist, idx in zip(distances[0], indices[0]): if idx < len(image_paths):
\* results.append((image_paths[idx], float(dist)))"; the index -1 of a Python
\* list is its last element, and an IndexError on an empty list
BuildResults(paths, slots) ==
    LET kept == SelectSeq(slots, LAMBDA s : s[1] <= Len(paths))
    IN IF \E a \in 1..Len(kept) : kept[a][1] = 0 /\ paths = <<>>
       THEN [raised |-> TRUE, results |-> <<>>]
       ELSE [raised |-> FALSE,
             results |-> [a \in 1..Len(kept) |->
                             <<paths[IF kept[a][1] = 0 THEN Len(paths) ELSE kept[a][1]],
                               kept[a][2]>>]]

\* search_by_vector(query_vector, k) on the engine (ix, paths): the outcomes
search_by_vector(ix, paths, q, topk) ==
    IF ix = None THEN {[raised |-> FALSE, results |-> <<>>]}
    ELSE {IF o.raised THEN [raised |-> TRUE, results |-> <<>>]
          ELSE BuildResults(paths, o.slots) :
             o \in IndexSearch(ix, q, CapK(topk, ntotal(ix)))}

\* variant: the empty store is not refused
build_index_of_nothing(tbl, ft, ix, paths) ==
    LET got == get_all_features(tbl, ft)
        vectors == [n \in 1..Len(got.vectors) |-> frombuffer(got.vectors[n]).vec]
    IN [ok |-> TRUE, raised |-> FALSE,
        index |-> add(IndexFlatIP(FEATURE_DIM), vectors),
        image_paths |-> got.paths]

\* variant: the path list is taken from the catalog, features or not
build_index_all_paths(tbl, ft, ix, paths) ==
    LET got == get_all_features(tbl, ft)
        vectors == [n \in 1..Len(got.vectors) |-> frombuffer(got.vectors[n]).vec]
    IN IF got.paths = <<>>
       THEN [ok |-> FALSE, raised |-> FALSE, index |-> ix, image_paths |-> paths]
       ELSE [ok |-> TRUE, raised |-> FALSE,
             index |-> add(IndexFlatIP(Len(vectors[1])), vectors),
             image_paths |-> [i \in 1..Len(tbl) |-> tbl[i].path]]

\* build_index() on the engine (ix, paths): np.frombuffer raises on a blob
\* that is no whole number of float32 values and np.array(..., float32) on
\* vectors of unequal lengths, both before the engine is touched; a length
\* other than FEATURE_DIM is only printed as a warning
build_index(tbl, ft, ix, paths) ==
    LET got == get_all_features(tbl, ft)
        bufs == [n \in 1..Len(got.vectors) |-> frombuffer(got.vectors[n])]
        vectors == [n \in 1..Len(bufs) |-> bufs[n].vec]
    IN IF got.paths = <<>>
       THEN [ok |-> FALSE, raised |-> FALSE, index |-> ix, image_paths |-> paths]
       ELSE IF \/ \E n \in 1..Len(bufs) : bufs[n].raised
               \/ \E m, n \in 1..Len(vectors) : Len(vectors[m]) # Len(vectors[n])
            THEN [ok |-> FALSE, raised |-> TRUE, index |-> ix, image_paths |-> paths]
            ELSE [ok |-> TRUE, raised |-> FALSE,
                  index |-> add(IndexFlatIP(Len(vectors[1])), vectors),
                  image_paths |-> got.paths]

\* save_index() on the engine (ix, paths): the two files and the result
save_index(ix, paths, ifile, pfile) ==
    IF ix = None
    THEN [ok |-> FALSE, index_file |-> ifile, paths_file |-> pfile]
    ELSE [ok |-> TRUE, index_file |-> File(ix), paths_file |-> File(paths)]

\* variant: the index is read before the paths file is looked for
load_index_eager(ix, paths, ifile, pfile) ==
    IF ~ifile.exists THEN [ok |-> FALSE, index |-> ix, image_paths |-> paths]
    ELSE IF ~pfile.exists THEN [ok |-> FALSE, index |-> ifile.data, image_paths |-> paths]
         ELSE [ok |-> TRUE, index |-> ifile.data, image_paths |-> pfile.data]

\* load_index() on the engine (ix, paths)
load_index(ix, paths, ifile, pfile) ==
    IF ~ifile.exists THEN [ok |-> FALSE, index |-> ix, image_paths |-> paths]
    ELSE IF ~pfile.exists THEN [ok |-> FALSE, index |-> ix, image_paths |-> paths]
         ELSE [ok |-> TRUE, index |-> ifile.data, image_paths |-> pfile.data]

\* SearchEngine(): "if os.path.exists(INDEX_PATH): self.load_index()"
NewSearchEngine(ifile, pfile) ==
    IF ifile.exists THEN load_index(None, <<>>, ifile, pfile)
    ELSE [ok |-> FALSE, index |-> None, image_paths |-> <<>>]

\* ---- calls of the engine ----------------------------------------------------

db == <<images, features, pc, locals, last_register, fetched, extract_failed, saved>>

\* engine = SearchEngine()
NewEngine ==
    /\ LET e == NewSearchEngine(index_file, paths_file)
       IN /\ index' = e.index
          /\ image_paths' = e.image_paths
          /\ ret' = Returned("init", e.ok)
    /\ UNCHANGED <<db, index_file, paths_file, groups, build, duplicates>>

BuildIndex ==
    /\ LET b == build_index(images, features, index, image_paths)
       IN /\ index' = b.index
          /\ image_paths' = b.image_paths
          /\ ret' = IF b.raised THEN Raised("build_index") ELSE Returned("build_index", b.ok)
    /\ UNCHANGED <<db, index_file, paths_file, groups, build, duplicates>>

SaveIndex ==
    /\ LET s == save_index(index, image_paths, index_file, paths_file)
       IN /\ index_file' = s.index_file
          /\ paths_file' = s.paths_file
          /\ ret' = Returned("save_index", s.ok)
    /\ UNCHANGED <<db, index, image_paths, groups, build, duplicates>>

\* the process is killed in save_index between faiss.write_index and the
\* pickle.dump of the paths
SaveIndexKilled ==
    /\ index # None
    /\ index_file' = File(index)
    /\ index' = None
    /\ image_paths' = <<>>
    /\ ret' = Raised("save_index")
    /\ UNCHANGED <<db, paths_file, groups, build, duplicates>>

LoadIndex ==
    /\ LET l == load_index(index, image_paths, index_file, paths_file)
       IN /\ index' = l.index
          /\ image_paths' = l.image_paths
          /\ ret' = Returned("load_index", l.ok)
    /\ UNCHANGED <<db, index_file, paths_file, groups, build, duplicates>>

\* main.py "build-index": engine = SearchEngine(); if engine.build_index():
\* engine.save_index()
BuildIndexCommand ==
    /\ LET e == NewSearchEngine(index_file, paths_file)
           b == build_index(images, features, e.index, e.image_paths)
           s == save_index(b.index, b.image_paths, index_file, paths_file)
       IN /\ index' = b.index
          /\ image_paths' = b.image_paths
          /\ index_file' = IF b.ok THEN s.index_file ELSE index_file
          /\ paths_file' = IF b.ok THEN s.paths_file ELSE paths_file
          /\ ret' = IF b.raised THEN Raised("build-index") ELSE Returned("build-index", b.ok)
    /\ UNCHANGED <<db, groups, build, duplicates>>

\* one of the two snapshot files is removed from the data directory
RemoveArtifact(which) ==
    /\ IF which = "index"
       THEN index_file.exists /\ index_file' = NoFile /\ paths_file' = paths_file
       ELSE paths_file.exists /\ paths_file' = NoFile /\ index_file' = index_file
    /\ ret' = NoRet
    /\ UNCHANGED <<db, index, image_paths, groups, build, duplicates>>

\* the database file is removed and main.py "init" creates the tables anew
RemoveDatabase ==
    /\ pc \in NotRunning
    /\ images # <<>>
    /\ images' = <<>>
    /\ features' = <<>>
    /\ saved' = NeverSaved
    /\ fetched' = {}
    /\ extract_failed' = {}
    /\ last_register' = NoCall
    /\ ret' = NoRet
    /\ UNCHANGED <<pc, locals, engine>>

\* a snapshot without vectors is put in the data directory: an IndexFlatIP
\* of FEATURE_DIM written by faiss.write_index, and an empty path list
InstallEmptySnapshot ==
    /\ index_file' = File(IndexFlatIP(FEATURE_DIM))
    /\ paths_file' = File(<<>>)
    /\ ret' = NoRet
    /\ UNCHANGED <<db, index, image_paths, groups, build, duplicates>>

SearchByVector(q, topk) ==
    /\ \E o \in search_by_vector(index, image_paths, q, topk) :
          ret' = Ret("search_by_vector", FALSE, o.raised, q, <<>>, topk, o.results, <<>>)
    /\ UNCHANGED <<db, engine>>

\* search(query_image_path, k); readable says whether the provider can embed
\* the query image
Search(path, readable, topk) ==
    /\ IF index = None
       THEN ret' = Ret("search", FALSE, FALSE, <<>>, <<path>>, topk, <<>>, <<>>)
       ELSE LET got == extract(<<path>>, IF readable THEN {1} ELSE {})
            IN IF got.is_none \/ Len(got.valid_indices) = 0
               THEN ret' = Ret("search", FALSE, FALSE, <<>>, <<path>>, topk, <<>>, <<>>)
               ELSE \E o \in search_by_vector(index, image_paths, got.features[1], topk) :
                       ret' = Ret("search", FALSE, o.raised, got.features[1], <<path>>,
                                  topk, o.results, <<>>)
    /\ UNCHANGED <<db, engine>>

\* model.py extract_batch(image_paths): ImageDataset keeps the paths that
\* open when it is constructed; when one of them fails to load again in
\* __getitem__, the None in the batch makes the DataLoader's collate raise;
\* else the list of (path, feature), in the order of image_paths
extract_batch(qpaths, outcome) ==
    LET kept == SelectSeq(qpaths, LAMBDA p : outcome[p] # "unreadable")
    IN IF kept = <<>> THEN [raised |-> FALSE, results |-> <<>>]
       ELSE IF \E n \in 1..Len(kept) : outcome[kept[n]] = "late"
            THEN [raised |-> TRUE, results |-> <<>>]
            ELSE [raised |-> FALSE,
                  results |-> [n \in 1..Len(kept) |-> <<kept[n], Embed(kept[n])>>]]

\* search_batch(image_paths, k): every search is made in a worker thread and
\* "try: results[path] = future.result()  except: results[path] = []"
SearchBatch(qpaths, outcome, topk) ==
    /\ IF index = None
       THEN ret' = Ret("search_batch", FALSE, FALSE, <<>>, qpaths, topk, <<>>, <<>>)
       ELSE LET got == extract_batch(qpaths, outcome)
                tasks == {got.results[n][1] : n \in 1..Len(got.results)}
                found(p) == search_by_vector(index, image_paths, Embed(p), topk)
            IN IF got.raised
               THEN ret' = Ret("search_batch", FALSE, TRUE, <<>>, qpaths, topk, <<>>, <<>>)
               ELSE \E o \in [tasks -> UNION {found(p) : p \in tasks}] :
                       /\ \A p \in tasks : o[p] \in found(p)
                       /\ ret' = [Ret("search_batch", FALSE, FALSE, <<>>, qpaths, topk, <<>>,
                                      [p \in tasks |-> o[p].results])
                                  EXCEPT !.embedded = tasks,
                                         !.failed = {p \in tasks : o[p].raised}]
    /\ UNCHANGED <<db, engine>>

\* the catalog is filled only while there is neither an engine with an index
\* nor a snapshot: the index commands are explored on every store the
\* registrations and saves below can leave
Fresh == index = None /\ ~index_file.exists /\ ~paths_file.exists

\* a vector is saved for a record that has none
SaveOne ==
    \E e \in Ids \X Blobs :
        /\ e[1] \in RowIdsOf(images) \ DOMAIN features
        /\ CallSaveBatch(<<e>>)
Populate == Fresh /\ (ScanAny \/ SaveOne)

\* for the searches, one directory is scanned into the empty catalog and each
\* vector saved is the provider's for the record's file, under the configured
\* model or under a model of another output width
ScanOnce == images = <<>> /\ ScanAny
SaveEmbedded ==
    \E id \in RowIdsOf(images) \ DOMAIN features :
        \E v \in {Embed(images[id].path), Axis(1, FEATURE_DIM + 1)} :
            CallSaveBatch(<<(<<id, tobytes(v)>>)>>)
Ingest == Fresh /\ (ScanOnce \/ SaveEmbedded)

RemoveArtifactAny == \E which \in {"index", "paths"} : RemoveArtifact(which)
QueryVectors == Vectors
TopKs == 1..(NumPaths + 1)
SearchByVectorAny == \E q \in QueryVectors, topk \in TopKs : SearchByVector(q, topk)
SearchAny == \E path \in Paths, readable \in BOOLEAN, topk \in TopKs : Search(path, readable, topk)

\* the Vector Index: build, persist, restore
NextIndex ==
    \/ Populate
    \/ NewEngine
    \/ BuildIndex
    \/ SaveIndex
    \/ SaveIndexKilled
    \/ LoadIndex
    \/ BuildIndexCommand
    \/ RemoveArtifactAny
    \/ RemoveDatabase

\* the Search Engine on a built or restored index
NextSearch ==
    \/ Ingest
    \/ NewEngine
    \/ BuildIndex
    \/ InstallEmptySnapshot
    \/ SearchByVectorAny
    \/ SearchAny

\* search_batch on a built index
BatchInputs == {Ascending(S) : S \in {T \in SUBSET Paths : 1 <= Cardinality(T) /\ Cardinality(T) <= MaxCall}}
SearchBatchAny ==
    \E qpaths \in BatchInputs, topk \in {1, NumPaths + 1} :
        \E outcome \in [Range(qpaths) -> {"ok", "unreadable", "late"}] :
            SearchBatch(qpaths, outcome, topk)

NextBatch ==
    \/ Ingest
    \/ BuildIndex
    \/ SearchBatchAny

\* the store grows: one directory is scanned, vectors are saved one by one
GrowStore == ScanOnce \/ SaveEmbedded

\* build_index() run in one thread of a process whose other threads search
\* on the same engine; the statements that write the engine are steps.
\* "self.index = faiss.IndexFlatIP(vectors.shape[1])", after the features were
\* read and converted; a refused or failed build returns at once
RebuildBegin ==
    /\ build.pc = "idle"
    /\ LET b == build_index(images, features, index, image_paths)
       IN IF b.ok
          THEN /\ index' = IndexFlatIP(b.index.d)
               /\ build' = [pc |-> "add", vectors |-> b.index.xb, paths |-> b.image_paths,
                            old_index |-> index, old_paths |-> image_paths]
               /\ ret' = NoRet
          ELSE /\ index' = index
               /\ build' = build
               /\ ret' = IF b.raised THEN Raised("build_index")
                         ELSE Returned("build_index", FALSE)
    /\ UNCHANGED <<db, image_paths, index_file, paths_file, groups, duplicates>>

\* "self.index.add(vectors)"
RebuildAdd ==
    /\ build.pc = "add"
    /\ index' = add(index, build.vectors)
    /\ build' = [build EXCEPT !.pc = "paths"]
    /\ ret' = NoRet
    /\ UNCHANGED <<db, image_paths, index_file, paths_file, groups, duplicates>>

\* "self.image_paths = paths; return True"
RebuildPaths ==
    /\ build.pc = "paths"
    /\ image_paths' = build.paths
    /\ build' = [build EXCEPT !.pc = "idle"]
    /\ ret' = Returned("build_index", TRUE)
    /\ UNCHANGED <<db, index, index_file, paths_file, groups, duplicates>>

\* searches on an engine that is rebuilt while the store grows
NextRebuild ==
    \/ GrowStore
    \/ RebuildBegin
    \/ RebuildAdd
    \/ RebuildPaths
    \/ SearchByVectorAny

\* the snapshot over a store that grows between builds
NextSnapshot ==
    \/ GrowStore
    \/ NewEngine
    \/ BuildIndex
    \/ SaveIndex
    \/ SaveIndexKilled
    \/ LoadIndex

SpecSnapshot == Init /\ [][NextSnapshot]_vars
SpecRebuild == Init /\ [][NextRebuild]_vars
SpecBatch == Init /\ [][NextBatch]_vars
SpecIndex == Init /\ [][NextIndex]_vars
SpecSearch == Init /\ [][NextSearch]_vars


\* ---- deduplication.py: DuplicateDetector.merge_duplicate_groups -------------
\* Rows are numbered from 1 here.  duplicate_groups, a dict from a row to the
\* list of (row, similarity) found for it, is the sequence of its edges
\* <<img_id, dup_id>> in the order the two nested loops visit them.

\* find(x), with its path compression: the root and the parent list after it
RECURSIVE find(_, _)
find(parent, x) ==
    IF parent[x] # x
    THEN LET f == find(parent, parent[x])
         IN [root |-> f.root, parent |-> [f.parent EXCEPT ![x] = f.root]]
    ELSE [root |-> x, parent |-> parent]

\* variant: parent[x] = y, the link made at the row instead of at its root
union_at_row(parent, x, y) ==
    LET fx == find(parent, x)
        fy == find(fx.parent, y)
    IN IF fx.root # fy.root THEN [fy.parent EXCEPT ![x] = y] ELSE fy.parent

\* union(x, y): the parent list after it
union(parent, x, y) ==
    LET fx == find(parent, x)
        fy == find(fx.parent, y)
    IN IF fx.root # fy.root THEN [fy.parent EXCEPT ![fx.root] = fy.root] ELSE fy.parent

\* "for img_id, duplicates in duplicate_groups.items(): for dup_id, _ in
\* duplicates: union(img_id, dup_id)"
RECURSIVE UnionAll(_, _)
UnionAll(parent, edges) ==
    IF edges = <<>> THEN parent
    ELSE UnionAll(union(parent, Head(edges)[1], Head(edges)[2]), Tail(edges))

\* "for i in range(n): root = find(i); groups_dict[root].add(i)", from row i
\* on; acc is groups_dict as the sequence of its (root, members) in the order
\* the keys were inserted
RECURSIVE GroupsDict(_, _, _, _)
GroupsDict(parent, i, n, acc) ==
    IF i > n THEN acc
    ELSE LET f == find(parent, i)
             known == \E a \in 1..Len(acc) : acc[a].root = f.root
         IN GroupsDict(f.parent, i + 1, n,
                IF known
                THEN [a \in 1..Len(acc) |->
                         IF acc[a].root = f.root
                         THEN [acc[a] EXCEPT !.members = @ \cup {i}]
                         ELSE acc[a]]
                ELSE Append(acc, [root |-> f.root, members |-> {i}]))

\* merge_duplicate_groups(duplicate_groups) of a detector with n image paths:
\* the list of the groups of more than one row
merge_duplicate_groups(n, edges) ==
    LET parent == UnionAll([i \in 1..n |-> i], edges)
        dict == GroupsDict(parent, 1, n, <<>>)
        big == SelectSeq(dict, LAMBDA g : Cardinality(g.members) > 1)
    IN [a \in 1..Len(big) |-> big[a].members]

\* the qualifying edges among n rows: find_duplicate_groups leaves out idx = i
EdgesAmong(n) == {e \in (1..n) \X (1..n) : e[1] # e[2]}

\* the calls merge_duplicate_groups may get for n rows
MergeInputs(n) ==
    {[n |-> n, edges |-> edges, merged |-> <<>>, done |-> FALSE] :
        edges \in SeqsUpTo(EdgesAmong(n), MaxEdges)}

Merge ==
    /\ ~groups.done
    /\ groups.n > 0
    /\ groups' = [groups EXCEPT !.merged = merge_duplicate_groups(groups.n, groups.edges),
                                !.done = TRUE]
    /\ UNCHANGED <<db, index, image_paths, index_file, paths_file, ret, build, duplicates>>

\* a detector is handed a duplicate relation and merges it
InitDedup ==
    /\ InitRest
    /\ \E n \in 2..MaxRows : groups \in MergeInputs(n)
    /\ dedup = NoDedup
NextDedup == Merge
SpecDedup == InitDedup /\ [][NextDedup]_vars

\* ---- deduplication.py: DuplicateDetector.find_duplicate_groups ---------------

\* unit vectors with rational coordinates, in fifths: an inner product of 25
\* is the similarity 1.0, 24 is 0.96, 20 is 0.8
DetectVectors == {<<5, 0>>, <<4, 3>>, <<3, 4>>, <<-5, 0>>}
Thresholds == {20, 24}

\* build_faiss_index(): IndexFlatIP(self.vectors.shape[1]) and add
build_faiss_index(vectors) == add(IndexFlatIP(Len(vectors[1])), vectors)

\* variant: a similarity equal to the threshold does not qualify
QualifiesAbove(similarity, threshold) == similarity > threshold

\* "if similarity >= self.similarity_threshold"
Qualifies(similarity, threshold) == similarity >= threshold

\* the (idx, similarity) appended to duplicate_groups[i] from the result slots
\* of row i's search: "if idx != i" and the threshold test
RowDuplicates(i, slots, threshold) ==
    SelectSeq(slots, LAMBDA sl : sl[1] # i /\ Qualifies(sl[2], threshold))

\* the results the searches of rows i..n may give, "k = min(50, n)" each
RECURSIVE RowSearches(_, _, _)
RowSearches(ix, vectors, i) ==
    IF i > Len(vectors) THEN {<<>>}
    ELSE {<<o.slots>> \o rest :
             o \in IndexSearch(ix, vectors[i], Min(SEARCH_WIDTH, Len(vectors))),
             rest \in RowSearches(ix, vectors, i + 1)}

\* find_duplicate_groups() of a detector that holds ix and vectors: the
\* outcomes, each the slots found per row and the lists of duplicate_groups
find_duplicate_groups(ix, vectors, threshold) ==
    IF ix = None THEN {[hits |-> <<>>, duplicate_groups |-> <<>>]}
    ELSE {[hits |-> h,
           duplicate_groups |-> [i \in 1..Len(vectors) |-> RowDuplicates(i, h[i], threshold)]] :
             h \in RowSearches(ix, vectors, 1)}

\* duplicate_groups.items() walked by the two nested loops of
\* merge_duplicate_groups: the edges <<img_id, dup_id>> from row i on
RECURSIVE DictEdges(_, _)
DictEdges(dg, i) ==
    IF i > Len(dg) THEN <<>>
    ELSE [a \in 1..Len(dg[i]) |-> <<i, dg[i][a][1]>>] \o DictEdges(dg, i + 1)

\* the vectors a detector may have loaded: no more than two rows share one
Occurrences(vs, v) == Cardinality({a \in 1..Len(vs) : vs[a] = v})
DetectInputs(n) ==
    {[NoDedup EXCEPT !.stage = "loaded", !.vectors = vs, !.threshold = t] :
        vs \in {w \in [1..n -> DetectVectors] :
                   \A v \in DetectVectors : Occurrences(w, v) <= 2},
        t \in Thresholds}

\* duplicate_groups_dict = detector.find_duplicate_groups(); merged_groups =
\* detector.merge_duplicate_groups(duplicate_groups_dict)
Detect ==
    /\ dedup.stage = "loaded"
    /\ \E f \in find_duplicate_groups(build_faiss_index(dedup.vectors),
                                       dedup.vectors, dedup.threshold) :
          LET edges == DictEdges(f.duplicate_groups, 1)
          IN dedup' = [dedup EXCEPT !.stage = "merged",
                                    !.hits = f.hits,
                                    !.edges = edges,
                                    !.merged = merge_duplicate_groups(Len(dedup.vectors), edges)]
    /\ UNCHANGED <<db, index, image_paths, index_file, paths_file, ret, groups, build,
                   filter_file, report_file>>

\* a detector with loaded vectors finds and merges the duplicates
InitDetect ==
    /\ InitRest
    /\ groups = NoGroups
    /\ \E n \in 2..MaxRows : dedup \in DetectInputs(n)
NextDetect == Detect
SpecDetect == InitDetect /\ [][NextDetect]_vars

\* ---- deduplication.py: DuplicateSelector, FilterListGenerator, report --------

\* what the disk holds at a path: no file, or a file of some size
MissingFile == [exists |-> FALSE, size |-> 0]
DiskFiles == {MissingFile, [exists |-> TRUE, size |-> 1], [exists |-> TRUE, size |-> 2]}

\* file_sizes[img_id]: os.path.getsize(path) "if os.path.exists(path)", else 0
file_size(disk, path) == IF disk[path].exists THEN disk[path].size ELSE 0

\* list(group): the members of a set in the order the set enumerates them,
\* which Python leaves to the hash table
RECURSIVE Enumerations(_)
Enumerations(group) ==
    IF group = {} THEN {<<>>}
    ELSE UNION {{<<x>> \o e : e \in Enumerations(group \ {x})} : x \in group}

\* file_sizes, the dict filled for the members of one group
FileSizes(paths, group_list, disk) ==
    [img_id \in Range(group_list) |-> file_size(disk, paths[img_id])]

\* max(group_list, key=lambda x: file_sizes.get(x, 0)): the first element of
\* the list with the largest size
FirstMax(group_list, file_sizes) ==
    group_list[CHOOSE a \in 1..Len(group_list) :
                  /\ \A b \in 1..Len(group_list) :
                        file_sizes[group_list[b]] <= file_sizes[group_list[a]]
                  /\ \A b \in 1..(a - 1) :
                        file_sizes[group_list[b]] < file_sizes[group_list[a]]]

\* variant: every member of a group is marked to be filtered
select_none_from_groups(paths, duplicate_groups, disk, lists) ==
    [retained |-> {paths[FirstMax(lists[g], FileSizes(paths, lists[g], disk))] :
                      g \in 1..Len(duplicate_groups)},
     filtered |-> {paths[x] : x \in UNION Range(duplicate_groups)}]

\* select_best_from_groups(duplicate_groups) of a selector over paths, when
\* list(group) gives lists[g] for the g-th group: the two sets of paths
select_best_from_groups(paths, duplicate_groups, disk, lists) ==
    LET best_id(g) == FirstMax(lists[g], FileSizes(paths, lists[g], disk))
    IN [retained |-> {paths[best_id(g)] : g \in 1..Len(duplicate_groups)},
        filtered |-> UNION {{paths[x] : x \in Range(lists[g]) \ {best_id(g)}} :
                               g \in 1..Len(duplicate_groups)}]

\* the enumerations list(group) may give for the groups of a list
RECURSIVE GroupLists(_)
GroupLists(duplicate_groups) ==
    IF duplicate_groups = <<>> THEN {<<>>}
    ELSE {<<e>> \o rest : e \in Enumerations(Head(duplicate_groups)),
                           rest \in GroupLists(Tail(duplicate_groups))}

\* generate_filter_list(filtered_paths): the content of the file written
generate_filter_list(filtered_paths) ==
    File([total_filtered |-> Cardinality(filtered_paths),
          filtered_images |-> Ascending(filtered_paths)])

\* load_filter_list(): the set of paths of the file, none without a file
load_filter_list(file) ==
    IF ~file.exists THEN {} ELSE Range(file.data.filtered_images)

\* generate_report(duplicate_groups, image_paths, filtered, retained)
generate_report(duplicate_groups, paths, filtered_paths, retained_paths) ==
    File([total_images |-> Len(paths),
          duplicate_groups |-> Len(duplicate_groups),
          filtered_count |-> Cardinality(filtered_paths),
          retained_count |-> Cardinality(retained_paths),
          groups |-> [g \in 1..Len(duplicate_groups) |->
                        [size |-> Cardinality(duplicate_groups[g]),
                         images |-> LET sorted == Ascending(duplicate_groups[g])
                                    IN [a \in 1..Len(sorted) |-> paths[sorted[a]]]]]])

\* the path lists a selector may be given for n rows: the ids follow the
\* lexical order of the paths, or run against it
RowPaths(n) == {[i \in 1..n |-> i], [i \in 1..n |-> n + 1 - i]}

\* the lists of groups merge_duplicate_groups may return for n rows: disjoint
\* groups of two rows or more, in the order of their lowest rows
Lowest(g) == CHOOSE x \in g : \A y \in g : x <= y
GroupsAmong(n) ==
    {gl \in SeqsUpTo({g \in SUBSET (1..n) : Cardinality(g) >= 2}, n \div 2) :
        /\ gl # <<>>
        /\ \A a, b \in 1..Len(gl) :
              a < b => gl[a] \cap gl[b] = {} /\ Lowest(gl[a]) < Lowest(gl[b])}

SelectInputs(n) ==
    {[NoDedup EXCEPT !.stage = "merged", !.paths = ps, !.merged = gl, !.sizes = disk] :
        ps \in RowPaths(n), gl \in GroupsAmong(n), disk \in [1..n -> DiskFiles]}

\* selector = DuplicateSelector(detector.image_paths); retained_paths,
\* filtered_paths = selector.select_best_from_groups(merged_groups)
Select ==
    /\ dedup.stage = "merged"
    /\ dedup.merged # <<>>
    /\ \E lists \in GroupLists(dedup.merged) :
          LET sel == select_best_from_groups(dedup.paths, dedup.merged, dedup.sizes, lists)
          IN dedup' = [dedup EXCEPT !.stage = "selected",
                                    !.retained = sel.retained,
                                    !.filtered = sel.filtered]
    /\ UNCHANGED <<db, index, image_paths, index_file, paths_file, ret, groups, build,
                   filter_file, report_file>>

\* FilterListGenerator.generate_filter_list(filtered_paths);
\* DeduplicationReport.generate_report(...)
WriteLists ==
    /\ dedup.stage = "selected"
    /\ filter_file' = generate_filter_list(dedup.filtered)
    /\ report_file' = generate_report(dedup.merged, dedup.paths, dedup.filtered, dedup.retained)
    /\ dedup' = [dedup EXCEPT !.stage = "written"]
    /\ UNCHANGED <<db, index, image_paths, index_file, paths_file, ret, groups, build>>

\* a selector is handed groups and the lists are written
InitSelect ==
    /\ InitRest
    /\ groups = NoGroups
    /\ \E n \in 2..MaxRows : dedup \in SelectInputs(n)
NextSelect == Select \/ WriteLists
SpecSelect == InitSelect /\ [][NextSelect]_vars

\* ---- main.py: the command deduplicate ----------------------------------------

\* the thresholds of the command, in units of the inner products of the
\* stored vectors: 0.0 and 1.0
CommandThresholds == {0, 1}

\* the disk under the command: the files are all alike, or all missing
CommandDisks == {[p \in Paths |-> f] : f \in DiskFiles}

\* load_features_from_db(): np.frombuffer and np.array raise as in build_index
load_features_from_db(tbl, ft) ==
    LET got == get_all_features(tbl, ft)
        bufs == [n \in 1..Len(got.vectors) |-> frombuffer(got.vectors[n])]
        vectors == [n \in 1..Len(bufs) |-> bufs[n].vec]
    IN IF got.paths = <<>>
       THEN [ok |-> FALSE, raised |-> FALSE, vectors |-> <<>>, image_paths |-> <<>>]
       ELSE IF \/ \E n \in 1..Len(bufs) : bufs[n].raised
               \/ \E m, n \in 1..Len(vectors) : Len(vectors[m]) # Len(vectors[n])
            THEN [ok |-> FALSE, raised |-> TRUE, vectors |-> <<>>, image_paths |-> <<>>]
            ELSE [ok |-> TRUE, raised |-> FALSE, vectors |-> vectors, image_paths |-> got.paths]

\* main.py "deduplicate --threshold T" is started while the disk holds the
\* files disk: detector.load_features_from_db() and build_faiss_index(); the
\* command returns when there is no feature
DeduplicateStart(threshold, disk) ==
    /\ dedup.stage \notin {"loaded", "merged", "selected"}
    /\ LET l == load_features_from_db(images, features)
       IN dedup' = [NoDedup EXCEPT !.stage = IF l.raised THEN "raised"
                                            ELSE IF l.ok THEN "loaded" ELSE "no_features",
                                   !.threshold = threshold,
                                   !.sizes = disk,
                                   !.paths = l.image_paths,
                                   !.vectors = l.vectors]
    /\ ret' = NoRet
    /\ UNCHANGED <<db, index, image_paths, index_file, paths_file, groups, build,
                   filter_file, report_file>>

\* "if not merged_groups: return"
ReturnNoGroups ==
    /\ dedup.stage = "merged"
    /\ dedup.merged = <<>>
    /\ dedup' = [dedup EXCEPT !.stage = "no_groups"]
    /\ UNCHANGED <<db, index, image_paths, index_file, paths_file, ret, groups, build,
                   filter_file, report_file>>

DeduplicateStartAny ==
    \E threshold \in CommandThresholds, disk \in CommandDisks :
        DeduplicateStart(threshold, disk)

\* deduplicate runs, one after the other, over a store that grows
NextDeduplicate ==
    \/ GrowStore
    \/ DeduplicateStartAny
    \/ Detect
    \/ ReturnNoGroups
    \/ Select
    \/ WriteLists
SpecDeduplicate == Init /\ [][NextDeduplicate]_vars

\* ---- properties ------------------------------------------------------------

StatusOf(id) == images[id].status
RowIds == 1..Len(images)
PathsOf(tbl) == {tbl[i].path : i \in 1..Len(tbl)}

\* what a register call handed the set of paths ps must leave behind; the
\* step of a register call is the one that ends with last_register set
RegisterPost(ps) ==
    /\ Len(images') >= Len(images)
    /\ \A i \in 1..Len(images) : images'[i] = images[i]
    /\ \A i, j \in 1..Len(images') : images'[i].path = images'[j].path => i = j
    /\ PathsOf(images') = PathsOf(images) \cup ps
    /\ last_register'.new_count = Len(images') - Len(images)
    /\ ps \subseteq PathsOf(images) => (images' = images /\ last_register'.new_count = 0)

\* C1: a register call (insert_images_batch, scan_directory) keeps every
\* record of the catalog as it was, id and status, leaves no path with two
\* records, adds exactly the paths that were not known, and returns the number
\* of records it added: 0 when every path handed in was known.
C1_RegisterIdempotent ==
    [][last_register' # NoCall => RegisterPost(last_register'.paths)]_vars

\* a register call has just returned 0 for paths that include a Processed and
\* a Failed record
C1_Witness ==
    /\ last_register.new_count = 0
    /\ \E i, j \in RowIds :
          /\ {images[i].path, images[j].path} \subseteq last_register.paths
          /\ StatusOf(i) = PROCESSED
          /\ StatusOf(j) = FAILED

\* C2: every status is Pending, Processed or Failed, and no step takes a
\* record that is not Pending back to Pending.
C2_StatusNeverReverts ==
    /\ [](\A i \in RowIds : StatusOf(i) \in {PENDING, PROCESSED, FAILED})
    /\ [][\A i \in RowIds :
             StatusOf(i) # PENDING => (i <= Len(images') /\ images'[i].status # PENDING)]_vars

\* a Failed record whose path has just been registered again, beside a
\* Pending one
C2_Witness ==
    /\ last_register # NoCall
    /\ \E i, j \in RowIds :
          /\ StatusOf(i) = FAILED
          /\ images[i].path \in last_register.paths
          /\ StatusOf(j) = PENDING

\* C3: no step changes the status of a Processed or Failed record.
C3_TerminalIsFinal ==
    [][\A i \in RowIds :
          StatusOf(i) \in {PROCESSED, FAILED} => images'[i].status = StatusOf(i)]_vars

PendingIds == {i \in RowIds : StatusOf(i) = PENDING}

\* C7: for every limit, get_pending_images returns min(limit, number of
\* Pending records) ids, all Pending, in ascending order, and every Pending id
\* it leaves out is greater than every id it returns.
C7_TakePending ==
    \A limit \in 0..(NumPaths + 1) :
        LET rows == get_pending_images(images, limit)
        IN /\ Len(rows) = Min(limit, Cardinality(PendingIds))
           /\ \A n \in 1..Len(rows) : rows[n] \in PendingIds
           /\ \A m, n \in 1..Len(rows) : m < n => rows[m] < rows[n]
           /\ \A i \in PendingIds \ Range(rows) : \A n \in 1..Len(rows) : rows[n] < i

\* two Pending records behind a Failed one: a limit of 1 must skip the Failed
\* record and stop before the second Pending one
C7_Witness ==
    \E f, a, b \in RowIds :
        /\ f < a /\ a < b
        /\ StatusOf(f) = FAILED
        /\ StatusOf(a) = PENDING
        /\ StatusOf(b) = PENDING
        /\ get_pending_images(images, 1) = <<a>>

RECURSIVE SumValues(_)
SumValues(f) ==
    IF DOMAIN f = {} THEN 0
    ELSE LET x == CHOOSE y \in DOMAIN f : TRUE
         IN f[x] + SumValues([y \in DOMAIN f \ {x} |-> f[y]])

\* stats.get(st, 0)
StatsGet(stats, st) == IF st \in DOMAIN stats THEN stats[st] ELSE 0

\* C10: the counts of get_stats sum to the number of records, and so do the
\* three counts the stats command prints.
C10_StatsSum ==
    LET stats == get_stats(images)
    IN /\ SumValues(stats) = Len(images)
       /\ StatsGet(stats, PENDING) + StatsGet(stats, PROCESSED) + StatsGet(stats, FAILED)
              = Len(images)

\* two records share a status and a third has another
C10_Witness ==
    /\ Len(images) = 3
    /\ Cardinality(DOMAIN get_stats(images)) = 2


\* ---- properties of the commands ----------------------------------------------

HasFeature(id) == id \in DOMAIN features
FeatureIffProcessed == \A id \in RowIds : HasFeature(id) <=> StatusOf(id) = PROCESSED

\* C4: when process_images has returned, an image has a feature row exactly
\* when its status is Processed, and no feature row is without an image.
C4_AtRestFeatureIffProcessed ==
    pc = "returned" => (FeatureIffProcessed /\ DOMAIN features \subseteq RowIds)

\* process has returned leaving a Processed, a Failed and, after a later scan,
\* a Pending record
C4_Witness ==
    /\ pc = "returned"
    /\ \E a, b, c \in RowIds :
          StatusOf(a) = PROCESSED /\ StatusOf(b) = FAILED /\ StatusOf(c) = PENDING

\* an iteration of the loop has ended: the next statement is the fetch, and
\* ids still holds the batch of the iteration
IterationEnded == pc = "fetch" /\ ids # <<>>

\* C5: at the end of an iteration every id of the batch at a position the
\* provider returned is Processed and every other id of the batch is Failed;
\* and every iteration, the one of an entirely failed batch too, ends at the
\* next fetch.
C5_BatchFullyMarked ==
    /\ [](IterationEnded =>
            \A n \in 1..Len(ids) :
                StatusOf(ids[n]) = IF n \in Range(valid_indices) THEN PROCESSED ELSE FAILED)
    /\ [][/\ (pc \in {"fail_all", "mark_failed"} /\ pc' # pc) => pc' = "fetch"
          /\ (pc = "mark_processed" /\ failed_ids = <<>> /\ pc' # pc) => pc' = "fetch"]_vars

\* an entirely failed batch has been marked and a Pending record is left for
\* the next fetch
C5_Witness ==
    /\ IterationEnded
    /\ valid_indices = <<>>
    /\ Len(ids) = BATCH_SIZE
    /\ \E i \in RowIds : StatusOf(i) = PENDING

\* C6: a running process_images returns, and at the moment it returns no
\* record is Pending.
C6_Terminates ==
    /\ (pc \notin NotRunning) ~> (pc = "returned")
    /\ [][(pc # "returned" /\ pc' = "returned")
             => \A i \in 1..Len(images') : images'[i].status # PENDING]_vars

\* process has returned after more than one batch, with failures among them
C6_Witness ==
    /\ pc = "returned"
    /\ Len(images) > BATCH_SIZE
    /\ \A i \in RowIds : StatusOf(i) # PENDING
    /\ \E i \in RowIds : StatusOf(i) = FAILED

\* C8 as stated: of two ids of one batch the smaller is re-marked first.
C8_AscendingRemark ==
    \A m, n \in 1..Len(ids) :
        (m < n /\ StatusOf(ids[n]) # PENDING) => StatusOf(ids[m]) # PENDING

\* the ids the failed loop of the iteration goes through: ids itself when the
\* provider returned nothing
FailOrder == IF successful_ids = <<>> /\ failed_ids = <<>> THEN ids ELSE failed_ids

\* C8 amended: the succeeded ids of a batch are marked Processed together,
\* before any failed id of the batch is marked; the failed ids are marked
\* Failed one at a time in ascending id order.
C8_SuccessesThenFailures ==
    /\ \A a, b \in Range(successful_ids) : StatusOf(a) = StatusOf(b)
    /\ \A a \in Range(successful_ids) : StatusOf(a) \in {PENDING, PROCESSED}
    /\ \A f \in Range(FailOrder) : StatusOf(f) \in {PENDING, FAILED}
    /\ \A f \in Range(failed_ids) : \A a \in Range(successful_ids) :
          StatusOf(f) = FAILED => StatusOf(a) = PROCESSED
    /\ \A m, n \in 1..Len(FailOrder) :
          (m < n /\ StatusOf(FailOrder[n]) = FAILED) => StatusOf(FailOrder[m]) = FAILED
    /\ \A m, n \in 1..Len(FailOrder) : m < n => FailOrder[m] < FailOrder[n]

\* the succeeded id of a batch is Processed while a smaller failed id of the
\* same batch is still Pending
C8_Witness ==
    /\ pc = "mark_failed"
    /\ \E f \in Range(failed_ids) : \E a \in Range(successful_ids) :
          f < a /\ StatusOf(a) = PROCESSED /\ StatusOf(f) = PENDING

\* C9: after a crash every Processed record has a feature, every Failed
\* record is one the provider failed to embed, and every fetched record that
\* is still Pending has a greater id than every record that is not; and when
\* process has returned, after a crash or not, a record has a feature exactly
\* when it is Processed.
C9_CrashLeavesTail ==
    /\ pc = "crashed" =>
          /\ \A i \in RowIds : StatusOf(i) = PROCESSED => HasFeature(i)
          /\ \A i \in RowIds : StatusOf(i) = FAILED => i \in extract_failed
          /\ \A i \in fetched : \A j \in RowIds :
                (StatusOf(i) = PENDING /\ StatusOf(j) # PENDING) => j < i
    /\ pc = "returned" => FeatureIffProcessed


\* ---- properties of the Feature Store -----------------------------------------

\* what load_all returns now
loaded == get_all_features(images, features)
SavedIds == DOMAIN saved.latest

\* the one position of loaded that holds the record id, with the vector v
LoadedOnceAs(id, v) ==
    /\ \E n \in 1..Len(loaded.paths) :
          loaded.paths[n] = images[id].path /\ loaded.vectors[n] = v
    /\ Cardinality({n \in 1..Len(loaded.paths) : loaded.paths[n] = images[id].path}) = 1

BuildReturned == ret.op \in {"build_index", "build-index"} /\ ~ret.raised
FeatureIds == Ascending(DOMAIN features)

StoreEmpty == get_all_features(images, features).paths = <<>>

\* C13: build_index on an empty Feature Store returns False and leaves the
\* index and the path list of the engine as they were; the build-index
\* command, on an empty store, returns failure with the engine as its
\* constructor left it and the two snapshot files untouched.
C13_EmptyStoreRefused ==
    [][/\ (ret'.op = "build_index" /\ StoreEmpty) =>
             /\ ret' = Returned("build_index", FALSE)
             /\ UNCHANGED <<index, image_paths, index_file, paths_file>>
       /\ (ret'.op = "build-index" /\ StoreEmpty) =>
             /\ ret' = Returned("build-index", FALSE)
             /\ index' = NewSearchEngine(index_file, paths_file).index
             /\ image_paths' = NewSearchEngine(index_file, paths_file).image_paths
             /\ UNCHANGED <<index_file, paths_file>>]_vars

\* build_index has failed on an empty store in an engine that holds the index
\* it loaded from the snapshot
C13_Witness ==
    /\ ret = Returned("build_index", FALSE)
    /\ StoreEmpty
    /\ index # None
    /\ index = index_file.data
    /\ image_paths = paths_file.data

StoreMismatch ==
    \E id \in DOMAIN features : Len(frombuffer(features[id]).vec) # FEATURE_DIM

\* C14: a build on a store that holds a vector of a length other than
\* FEATURE_DIM returns failure, and no index of another dimension than
\* FEATURE_DIM is ever installed in the engine or written to the snapshot.
C14_MismatchRefused ==
    /\ (BuildReturned /\ StoreMismatch) => ~ret.ok
    /\ index # None => index.d = FEATURE_DIM
    /\ index_file.exists => index_file.data.d = FEATURE_DIM

OneArtifact == index_file.exists # paths_file.exists

Searched ==
    /\ ret.op = "search_by_vector"
    /\ index # None
    /\ ntotal(index) >= 1
    /\ Len(ret.qv) = index.d

\* C15: on an index of n >= 1 vectors, search_by_vector(v, k) for a vector v
\* of the dimension of the index and k >= 1 raises nothing and returns
\* exactly min(k, n) results.
C15_ResultCount ==
    Searched => (~ret.raised /\ Len(ret.results) = Min(ret.topk, ntotal(index)))

\* a search for more results than the index has vectors has returned one
\* result per vector
C15_Witness ==
    /\ Searched
    /\ ntotal(index) >= 2
    /\ ret.topk > ntotal(index)
    /\ Len(ret.results) = ntotal(index)

RowsHolding(v) == {r \in 1..ntotal(index) : index.xb[r] = v}

\* C16 as stated: a search with the vector stored for an indexed image
\* returns that image first, for every indexed image.
C16_SelfFirst ==
    Searched => \A r \in RowsHolding(ret.qv) : ret.results[1][1] = image_paths[r]

\* C16 amended: a search with the unit-length vector stored for an indexed
\* image returns first, with the score of the vector with itself, an image
\* whose stored vector is identical to the query: the image itself when no
\* other indexed image has an identical vector, and else one of the images
\* that share the vector.
C16_SelfOrTwinFirst ==
    (Searched /\ RowsHolding(ret.qv) # {}) =>
        /\ \E r \in RowsHolding(ret.qv) :
              ret.results[1] = <<image_paths[r], InnerProduct(ret.qv, ret.qv)>>
        /\ InnerProduct(ret.qv, ret.qv) = 1
        /\ \A r \in 1..ntotal(index) :
              RowsHolding(ret.qv) = {r} => ret.results[1][1] = image_paths[r]

\* the query is the vector of two indexed images, and of a third image with
\* another vector between them; the first of the two is returned first
C16_Witness ==
    /\ Searched
    /\ Cardinality(RowsHolding(ret.qv)) = 2
    /\ ntotal(index) = 3
    /\ \E r \in RowsHolding(ret.qv) :
          /\ ret.results[1][1] = image_paths[r]
          /\ \A t \in RowsHolding(ret.qv) : r <= t

\* C17: search_by_vector and search return an empty list and raise nothing
\* when the engine has no index, when its index has no vectors, and when the
\* provider fails to embed the query image.
C17_EmptyNotError ==
    (/\ ret.op \in {"search_by_vector", "search"}
     /\ \/ index = None
        \/ ntotal(index) = 0
        \/ (ret.op = "search" /\ ret.qv = <<>>))
        => (~ret.raised /\ ret.results = <<>>)

\* C18: search_batch on an engine with an index raises nothing; a query path
\* the provider did not embed, or whose search raised, is not a key of the
\* dict returned; every other query path is a key, with a result list that
\* search_by_vector gives for its vector.
C18_BatchDegrades ==
    (ret.op = "search_batch" /\ index # None) =>
        /\ ~ret.raised
        /\ \A p \in Range(ret.qpaths) :
              IF p \in ret.embedded \ ret.failed
              THEN /\ p \in DOMAIN ret.batch
                   /\ \E o \in search_by_vector(index, image_paths, Embed(p), ret.topk) :
                         ~o.raised /\ o.results = ret.batch[p]
              ELSE p \notin DOMAIN ret.batch

\* ---- properties of the Duplicate Engine ---------------------------------------

Endpoints(edges) == UNION {{edges[a][1], edges[a][2]} : a \in 1..Len(edges)}

\* C20: the groups merge_duplicate_groups returns are pairwise disjoint, each
\* has at least two rows, and together they hold exactly the rows that are an
\* endpoint of an edge handed in.
C20_GroupsPartitionEndpoints ==
    groups.done =>
        /\ \A a, b \in 1..Len(groups.merged) :
              a # b => groups.merged[a] \cap groups.merged[b] = {}
        /\ \A a \in 1..Len(groups.merged) : Cardinality(groups.merged[a]) >= 2
        /\ UNION Range(groups.merged) = Endpoints(groups.edges)

\* two groups and a row in none: one group of three rows joined only through
\* a middle row, reached by edges in both directions
C20_Witness ==
    /\ groups.done
    /\ groups.n = MaxRows
    /\ \E g \in Range(groups.merged) :
          /\ Cardinality(g) = 3
          /\ \E x, y \in g : <<x, y>> \notin Range(groups.edges) /\ <<y, x>> \notin Range(groups.edges) /\ x # y
    /\ Cardinality(UNION Range(groups.merged)) < groups.n

\* ---- properties of the pipeline's write order -------------------------------

\* C28: in every state of the ingestion pipeline, in the middle of a batch
\* and after a crash between two database operations as well, every record
\* whose status is Processed has a feature row.
C28_ProcessedHasFeature ==
    \A id \in RowIds : StatusOf(id) = PROCESSED => HasFeature(id)

\* a run killed between save_feature_batch and mark_as_processed, after an
\* earlier batch was completed: one record is Processed with its feature,
\* another has its feature and is still Pending
C28_Witness ==
    /\ pc = "crashed"
    /\ \E id \in RowIds : StatusOf(id) = PROCESSED /\ HasFeature(id)
    /\ \E id \in RowIds : StatusOf(id) = PENDING /\ HasFeature(id)

\* the vector the provider computes for the file of record id
ProviderVector(id) == Embed(images[id].path)

\* C29: when save_feature_batch has returned, every batch position that
\* succeeded has, under its own id, the bytes of the provider's vector for the
\* file at that position, and a position that failed has no vector.
C29_VectorsFollowPositions ==
    pc = "mark_processed" =>
        \A i \in 1..Len(ids) :
            IF i \in Range(valid_indices)
            THEN /\ HasFeature(ids[i])
                 /\ features[ids[i]] = tobytes(ProviderVector(ids[i]))
            ELSE ~HasFeature(ids[i])

\* a batch of two files with different vectors of which only the second
\* could be read
C29_Witness ==
    /\ pc = "mark_processed"
    /\ Len(ids) = 2
    /\ valid_indices = <<2>>
    /\ ProviderVector(ids[1]) # ProviderVector(ids[2])
    /\ HasFeature(ids[2])

\* ---- properties of the snapshot ----------------------------------------------

\* row r of the index holds the vector stored for the image at image_paths[r]
RowIsOfPath(r) ==
    \E id \in RowIds :
        /\ images[id].path = image_paths[r]
        /\ HasFeature(id)
        /\ frombuffer(features[id]).vec = index.xb[r]

\* C30: after any sequence of build_index, save_index and load_index, a
\* kill between the two file writes of save_index followed by a load in a new
\* engine included, an engine that holds an index has a path list of as many
\* entries as the index has vectors, and row r's path is the path of the image
\* whose vector is at row r.
C30_PathsFollowRows ==
    index # None =>
        /\ Len(image_paths) = ntotal(index)
        /\ \A r \in 1..ntotal(index) : RowIsOfPath(r)

\* ---- properties of the rebuild ------------------------------------------------

\* C27: a search that runs while build_index is under way on the same engine
\* finds either the index and path list the engine held before the build or
\* the complete new index with the new path list.
C27_SearchSeesOldOrNew ==
    (ret.op = "search_by_vector" /\ build.pc # "idle") =>
        \/ index = build.old_index /\ image_paths = build.old_paths
        \/ /\ index = add(IndexFlatIP(index.d), build.vectors)
           /\ image_paths = build.paths

\* ---- properties of the Duplicate Engine's detector -----------------------------

\* the pairs the per-row searches found with a score that reaches the threshold
FoundPairs ==
    {e \in (1..Len(dedup.hits)) \X (1..Len(dedup.hits)) :
        /\ e[1] # e[2]
        /\ \E a \in 1..Len(dedup.hits[e[1]]) :
              /\ dedup.hits[e[1]][a][1] = e[2]
              /\ dedup.hits[e[1]][a][2] >= dedup.threshold}

Neighbours(E, S) == S \cup {j \in 1..Len(dedup.vectors) :
                               \E i \in S : <<i, j>> \in E \/ <<j, i>> \in E}
RECURSIVE Connected(_, _)
Connected(E, S) == IF Neighbours(E, S) = S THEN S ELSE Connected(E, Neighbours(E, S))
Components(E) == {Connected(E, {i}) : i \in 1..Len(dedup.vectors)}

\* C21: the duplicate groups are the connected components of more than one
\* row of the undirected graph whose edges are the pairs (i, j), i # j, that
\* the per-row searches found with a score of at least the threshold, each
\* component once.
C21_GroupsAreComponents ==
    dedup.stage = "merged" =>
        /\ Range(dedup.merged) = {c \in Components(FoundPairs) : Cardinality(c) > 1}
        /\ Len(dedup.merged) = Cardinality(Range(dedup.merged))

\* A, B, C, D with sim(A,B) equal to the threshold, sim(B,C) above it and
\* every other pair below: the one group is {A, B, C}, joined through B
C21_Witness ==
    /\ dedup.stage = "merged"
    /\ Len(dedup.vectors) = 4
    /\ InnerProduct(dedup.vectors[1], dedup.vectors[2]) = dedup.threshold
    /\ InnerProduct(dedup.vectors[2], dedup.vectors[3]) > dedup.threshold
    /\ InnerProduct(dedup.vectors[1], dedup.vectors[3]) < dedup.threshold
    /\ \A i \in 1..3 : InnerProduct(dedup.vectors[i], dedup.vectors[4]) < dedup.threshold
    /\ dedup.merged = <<{1, 2, 3}>>

\* C22: any two rows whose inner product reaches the threshold are in the
\* same duplicate group, also when the index has more rows than the per-row
\* search is wide.
C22_GroupsAreMaximal ==
    dedup.stage = "merged" =>
        \A i, j \in 1..Len(dedup.vectors) :
            (i # j /\ InnerProduct(dedup.vectors[i], dedup.vectors[j]) >= dedup.threshold)
                => \E g \in Range(dedup.merged) : i \in g /\ j \in g

\* ---- properties of the Duplicate Engine's selector -----------------------------

Selected == dedup.stage \in {"selected", "written"}
GroupPaths(g) == {dedup.paths[x] : x \in g}

\* C23: selection keeps one survivor per group and marks every other member
\* as filtered: the two sets are disjoint, there are as many retained paths as
\* groups, retained and filtered together count the images that are in a
\* group, and an image in no group is in neither set.
C23_OneSurvivorPerGroup ==
    Selected =>
        /\ dedup.retained \cap dedup.filtered = {}
        /\ Cardinality(dedup.retained) = Len(dedup.merged)
        /\ \A g \in Range(dedup.merged) : Cardinality(dedup.retained \cap GroupPaths(g)) = 1
        /\ Cardinality(dedup.retained) + Cardinality(dedup.filtered)
              = Cardinality(UNION Range(dedup.merged))
        /\ \A x \in (1..Len(dedup.paths)) \ UNION Range(dedup.merged) :
              dedup.paths[x] \notin dedup.retained \cup dedup.filtered

\* a group of three rows and a row in no group, whose file is the largest
C23_Witness ==
    /\ Selected
    /\ Len(dedup.paths) = MaxRows
    /\ \E x \in 1..Len(dedup.paths) :
          /\ dedup.merged = <<(1..Len(dedup.paths)) \ {x}>>
          /\ \A y \in 1..Len(dedup.paths) :
                file_size(dedup.sizes, dedup.paths[y]) <= file_size(dedup.sizes, dedup.paths[x])
    /\ Cardinality(dedup.filtered) = MaxRows - 2

\* the largest file size among the members of a group
LargestSize(g) ==
    CHOOSE z \in {file_size(dedup.sizes, p) : p \in GroupPaths(g)} :
        \A p \in GroupPaths(g) : file_size(dedup.sizes, p) <= z
Largest(g) == {p \in GroupPaths(g) : file_size(dedup.sizes, p) = LargestSize(g)}
LexicallyFirst(ps) == CHOOSE p \in ps : \A q \in ps : p <= q

\* C24: the survivor of each group is the member with the largest file, and
\* among several of the largest size the one whose path is lexically first,
\* whatever the order in which the members are enumerated.
C24_LargestThenLexical ==
    Selected =>
        \A g \in Range(dedup.merged) :
            dedup.retained \cap GroupPaths(g) = {LexicallyFirst(Largest(g))}

\* the paths the report lists in some group
Reported == IF ~report_file.exists THEN {}
            ELSE UNION {Range(report_file.data.groups[g].images) :
                           g \in 1..Len(report_file.data.groups)}

\* C25: a group member whose file is missing is never the survivor of its
\* group and is in the filter list and in the report, in every group, one
\* whose members' files are all missing included.
C25_MissingNeverSurvives ==
    dedup.stage = "written" =>
        \A x \in UNION Range(dedup.merged) :
            ~dedup.sizes[dedup.paths[x]].exists =>
                /\ dedup.paths[x] \notin dedup.retained
                /\ dedup.paths[x] \in load_filter_list(filter_file)
                /\ dedup.paths[x] \in Reported

\* ---- properties of the command deduplicate ---------------------------------------

\* C26: after every completed deduplicate command the persisted filter list
\* holds exactly the filtered paths of that run, and total_filtered is their
\* number; it is empty after a run that found no duplicate groups.
C26_FilterListIsLatest ==
    dedup.stage \in {"written", "no_groups"} =>
        /\ load_filter_list(filter_file) = dedup.filtered
        /\ filter_file.exists =>
              filter_file.data.total_filtered = Cardinality(dedup.filtered)

=============================================================================
